---- MODULE Spec2Model ----
(***************************************************************************)
(* Model of the content-repository synchronisation and caching layer of    *)
(* cheer-factory (src/main.py) together with the automation agent's        *)
(* publish path (src/agent/post_generator.py).                             *)
(*                                                                         *)
(* The remote store is the GitHub contents API: a GET answers 200 for an   *)
(* existing path and 404 for an absent one, a PUT without "sha" creates a  *)
(* file and is rejected for an existing path, a PUT or DELETE with the     *)
(* current "sha" is accepted.  Every HTTP call has an outcome:             *)
(*   "ok"  the store answers as above,                                     *)
(*   "err" the store answers with a failure status and changes nothing,    *)
(*   "exc" the requests library raises and the store changes nothing.      *)
(* A behaviour contains at most MaxFaults calls whose outcome is not "ok". *)
(* Texts are sequences of lines; a line carries its recognised prefix.     *)
(***************************************************************************)
EXTENDS Integers, Sequences, FiniteSets, TLC

VARIABLES files, index, cache, now, ret, lastList, faults, pub, lst, doc, parsed,
          arg, out, rate, budget, gb

vars == <<files, index, cache, now, ret, lastList, faults, pub, lst, doc, parsed,
          arg, out, rate, budget, gb>>

(* ---------------------------- bounds ---------------------------------- *)
MaxSeq == 2
MaxIndex == 4
MaxFaults == 1
TickStep == 60
MaxTicks == 1
T0 == 100
MaxLines == 5
MaxWord == 2
MaxPosts == 2
MaxTotal == 11
MaxPage == 4
GuestStep == 150
MaxGuestTicks == 2
OutageFaults == 2
MaxPasses == 2

(* ------------------------ program constants --------------------------- *)
ttl == 60
per_page == 5
rate_window == 60
sweep_age == 300
max_nickname == 20
max_message == 500

Today == "2026-01-10"
Langs == {"ko", "en"}
Suffixes == <<"ko", "en">>
Seqs == 1..MaxSeq
Outcomes == {"ok", "err", "exc"}
(* the translation call raises, or its answer lacks the "title" key *)
TrOutcomes == {"ok", "exc", "notitle"}

PostIds == [date : {Today}, seq : Seqs, lang : Langs]
NoId == [date |-> "", seq |-> 0, lang |-> ""]
(* a request names a post by its base id or by the id of one language *)
ReqIds == [date : {Today}, seq : Seqs, lang : {"", "en"}] \cup {NoId}

Request(post_id, title, content, tags, image_url) ==
    [post_id |-> post_id, title |-> title, content |-> content, tags |-> tags,
     image_url |-> image_url]

PublishRequests ==
    {Request(NoId, "", <<"c1">>, <<>>, ""), Request(NoId, "k1", <<>>, <<>>, ""),
     Request(NoId, "k1", <<"c1">>, <<"a", "">>, "u")}

(* the update request that comes with an empty body names this post *)
EmptyBodyId == [date |-> Today, seq |-> 1, lang |-> "en"]

UpdateRequests ==
    {Request(NoId, "k2", <<"c1">>, <<>>, "")}
    \cup {Request(EmptyBodyId, "", <<"c1">>, <<>>, "")}
    \cup {Request(i, "k2", IF i = EmptyBodyId THEN <<>> ELSE <<"c1">>, <<>>, "") :
              i \in ReqIds \ {NoId}}

AgentPosts == {[title |-> "k1", content |-> <<"c1">>]}

(* translation collaborator: the English rendering of a title / a body *)
EnTitle(t) == IF t = "k1" THEN "e1" ELSE IF t = "k2" THEN "e2" ELSE t
EnLine(c) == IF c = "c1" THEN "d1" ELSE c
EnContent(c) == [i \in 1..Len(c) |-> EnLine(c[i])]

(* ----------------------------- texts ----------------------------------- *)
Line(p, t, g) == [pfx |-> p, txt |-> t, tags |-> g]
Plain(t) == Line("", t, <<>>)
Blank == Plain("")
NoFile == <<>>

NonEmpty(t) == t # ""
SplitTags(tags) == SelectSeq(tags, NonEmpty)

PlainLines(c) == [i \in 1..Len(c) |-> Plain(c[i])]

MetaLines(tags, image_url) ==
    (IF tags # <<>> THEN <<Line("TAGS:", "", tags)>> ELSE <<>>)
    \o (IF image_url # "" THEN <<Line("IMAGE:", image_url, <<>>)>> ELSE <<>>)

FileContent(title, tags, image_url, content) ==
    <<Plain(title)>> \o MetaLines(tags, image_url) \o <<Blank>> \o PlainLines(content)

AgentFileContent(title, content) ==
    <<Plain(title)>> \o <<Blank>> \o PlainLines(content)

RECURSIVE LStrip(_)
LStrip(s) == IF s # <<>> /\ Head(s) = "" THEN LStrip(Tail(s)) ELSE s

RECURSIVE RStrip(_)
RStrip(s) == IF s # <<>> /\ s[Len(s)] = "" THEN RStrip(SubSeq(s, 1, Len(s) - 1)) ELSE s

(* str.rstrip on the strings of the model: "t " is "t" followed by a space *)
RTrim(t) == IF t = "t " THEN "t" ELSE t

(* "\n".join(content_lines).strip(): blank lines at both ends go, and so does
   the white space that ends the last line *)
Strip(s) ==
    LET b == RStrip(LStrip(s)) IN
    IF b = <<>> THEN b ELSE [b EXCEPT ![Len(b)] = RTrim(@)]

IsBlankLine(l) == l.pfx = "" /\ l.txt = ""

RECURSIVE LStripText(_)
LStripText(s) == IF s # <<>> /\ IsBlankLine(Head(s)) THEN LStripText(Tail(s)) ELSE s

RECURSIVE RStripText(_)
RStripText(s) ==
    IF s # <<>> /\ IsBlankLine(s[Len(s)]) THEN RStripText(SubSeq(s, 1, Len(s) - 1)) ELSE s

StripText(s) ==
    LET b == RStripText(LStripText(s)) IN
    IF b = <<>> THEN b ELSE [b EXCEPT ![Len(b)].txt = RTrim(@)]

(* a line as the text holds it: the prefix, the value, the tags with commas *)
RECURSIVE Joined(_)
Joined(tags) ==
    IF tags = <<>> THEN ""
    ELSE IF Len(tags) = 1 THEN tags[1] ELSE tags[1] \o "," \o Joined(Tail(tags))

RawLine(l) == l.pfx \o l.txt \o Joined(l.tags)

RECURSIVE ScanLines(_, _)
ScanLines(lines, acc) ==
    IF lines = <<>> THEN acc
    ELSE LET l == Head(lines) IN
         ScanLines(Tail(lines),
            IF l.pfx = "TAGS:" THEN [acc EXCEPT !.tags = SplitTags(l.tags)]
            ELSE IF l.pfx = "IMAGE:" THEN [acc EXCEPT !.image_url = l.txt]
            ELSE [acc EXCEPT !.content_lines = Append(@, l.txt)])

parse_post_content(text) ==
    LET lines == StripText(text)
        \* "".split("\n") is [""]: the title of a blank text is the empty string
        title == IF lines # <<>> THEN RawLine(lines[1]) ELSE ""
        acc == ScanLines(IF lines # <<>> THEN Tail(lines) ELSE <<>>,
                         [tags |-> <<>>, image_url |-> "", content_lines |-> <<>>])
    IN [title |-> title, content |-> Strip(acc.content_lines),
        tags |-> acc.tags, image_url |-> acc.image_url]

(* ------------------------- index and cache ----------------------------- *)
Post(id, title, content, tags, image_url) ==
    [id |-> id, title |-> title, date |-> id.date, content |-> content,
     tags |-> tags, image_url |-> image_url, lang |-> id.lang]

NoIndex == [exists |-> FALSE, posts |-> <<>>]
IndexDoc(posts) == [exists |-> TRUE, posts |-> posts]

EmptyCache == [has |-> FALSE, data |-> <<>>, timestamp |-> 0]

Ids(posts) == {posts[i].id : i \in 1..Len(posts)}

FilterLang(posts, lang) ==
    IF lang = "" THEN posts ELSE SelectSeq(posts, LAMBDA p : p.lang = lang)

(* ------------------------ store calls and results ---------------------- *)
(* c is the state a handler has produced so far, the number n of store
   calls it has made, the number k of them that failed and the outcome tr
   of its translation call; Cont is the rest of the handler.               *)
Ctx0 == [files |-> files, index |-> index, cache |-> cache, k |-> 0, n |-> 0, tr |-> "",
         lacking |-> FALSE]

(* the fields of the request body that are empty *)
Missing(data, fields) ==
    {x \in fields : \/ x = "post_id" /\ data.post_id = NoId
                    \/ x = "title" /\ data.title = ""
                    \/ x = "content" /\ data.content = <<>>}

Asked(data, fields) == [Ctx0 EXCEPT !.lacking = Missing(data, fields) # {}]

Avail(n) == IF faults + n < budget THEN Outcomes ELSE {"ok"}

F(o) == IF o = "ok" THEN 0 ELSE 1

Http(c, Cont(_, _)) ==
    \E o \in Avail(c.k) : Cont(o, [c EXCEPT !.k = @ + F(o), !.n = @ + 1])

Translated(c, oTr) == [c EXCEPT !.tr = oTr]

(* what a handler returned: num is the sequence number it worked on, ids the
   ids it reports, calls the number of store calls it made *)
Ret(op, ok, why, num, ids) ==
    [op |-> op, ok |-> ok, why |-> why, num |-> num, ids |-> ids, calls |-> 0, tr |-> "",
     lacking |-> FALSE]

Failed(op, why, num) == Ret(op, FALSE, why, num, <<>>)

Done(c, r) ==
    /\ files' = c.files
    /\ index' = c.index
    /\ cache' = c.cache
    /\ faults' = faults + c.k
    /\ ret' = [r EXCEPT !.calls = c.n, !.tr = c.tr, !.lacking = c.lacking]
    /\ UNCHANGED <<now, pub, lst, doc, parsed, arg, out, rate, budget, gb>>

Found(fs, f, o) == o = "ok" /\ fs[f] # NoFile

(* PUT without "sha": creates the file, rejected when the path exists *)
CreateOk(fs, f, o) == o = "ok" /\ fs[f] = NoFile

(* ------------------------------ index ---------------------------------- *)
IndexFetched(idx, o) == IF o = "ok" /\ idx.exists THEN idx ELSE NoIndex

get_posts_index(c, Cont(_, _)) ==
    Http(c, LAMBDA o, c1 : Cont(IndexFetched(c1.index, o), c1))

IndexSavedPartial(idx, posts, oSha, oPut) ==
    LET hasSha == oSha = "ok" /\ idx.exists IN
    IF oPut = "ok" /\ (hasSha \/ ~idx.exists)
    THEN IndexDoc(SubSeq(posts, 1, Len(posts) - 1)) ELSE idx

IndexSaved(idx, posts, oSha, oPut) ==
    LET hasSha == oSha = "ok" /\ idx.exists IN
    IF oPut = "ok" /\ (hasSha \/ ~idx.exists) THEN IndexDoc(posts) ELSE idx

save_posts_index(c, posts, Cont(_, _)) ==
    Http(c, LAMBDA oSha, c1 :
      IF oSha = "exc" THEN Cont("raised", c1)
      ELSE Http(c1, LAMBDA oPut, c2 :
             IF oPut = "exc" THEN Cont("raised", c2)
             ELSE LET idx == IndexSaved(c2.index, posts, oSha, oPut) IN
                  Cont(IF idx = IndexDoc(posts) /\ oPut = "ok" THEN "saved" ELSE "failed",
                       [c2 EXCEPT !.index = idx])))

invalidate_cache(c) == [c EXCEPT !.cache = EmptyCache]

InsertFront(posts, post_data_ko, post_data_en) == <<post_data_ko, post_data_en>> \o posts

add_post_to_index(c, post_data_ko, post_data_en, Cont(_, _)) ==
    get_posts_index(c, LAMBDA index_data, c1 :
      save_posts_index(c1, InsertFront(index_data.posts, post_data_ko, post_data_en),
        LAMBDA res, c2 :
          IF res = "raised" THEN Cont(res, c2) ELSE Cont(res, invalidate_cache(c2))))

FirstMatch(posts, post_id) ==
    LET m == {i \in 1..Len(posts) : posts[i].id = post_id} IN
    IF m = {} THEN 0 ELSE CHOOSE i \in m : \A j \in m : i <= j

Patched(posts, post_id, d) ==
    LET i == FirstMatch(posts, post_id) IN
    IF i = 0 THEN posts
    ELSE [posts EXCEPT ![i] = [@ EXCEPT !.title = d.title, !.content = d.content,
                                         !.tags = d.tags, !.image_url = d.image_url,
                                         !.date = d.date]]

update_post_in_index(c, post_id, updated_data, Cont(_, _)) ==
    get_posts_index(c, LAMBDA index_data, c1 :
      IF ~index_data.exists THEN Cont("noindex", c1)
      ELSE save_posts_index(c1, Patched(index_data.posts, post_id, updated_data),
             LAMBDA res, c2 :
               IF res = "raised" THEN Cont(res, c2) ELSE Cont(res, invalidate_cache(c2))))

Removed(posts, post_id) == SelectSeq(posts, LAMBDA p : p.id # post_id)

remove_post_from_index(c, post_id, Cont(_, _)) ==
    get_posts_index(c, LAMBDA index_data, c1 :
      IF ~index_data.exists THEN Cont("noindex", c1)
      ELSE save_posts_index(c1, Removed(index_data.posts, post_id),
             LAMBDA res, c2 :
               IF res = "raised" THEN Cont(res, c2) ELSE Cont(res, invalidate_cache(c2))))

(* ------------------------------- list ---------------------------------- *)
(* file names in descending order: higher sequence first, "-ko" before "-en" *)
SortedNames == [i \in 1..(2 * MaxSeq) |->
    [date |-> Today, seq |-> MaxSeq - ((i - 1) \div 2),
     lang |-> IF i % 2 = 1 THEN "ko" ELSE "en"]]

Existing(fs) == {f \in PostIds : fs[f] # NoFile}

RECURSIVE FetchAll(_, _, _, _)
FetchAll(fs, names, fo, posts) ==
    IF names = <<>> THEN posts
    ELSE LET f == Head(names) IN
         IF fo[f] = "exc" THEN posts
         ELSE IF fo[f] = "err" THEN FetchAll(fs, Tail(names), fo, posts)
         ELSE LET p == parse_post_content(fs[f]) IN
              FetchAll(fs, Tail(names), fo,
                       Append(posts, Post(f, p.title, p.content, p.tags, p.image_url)))

(* the outcomes of the per-file GETs: after a raising one no GET is made *)
FetchOutcomes(fs, k) ==
    {fo \in [Existing(fs) -> Avail(k)] :
       /\ faults + k + Cardinality({f \in Existing(fs) : fo[f] # "ok"}) <= budget
       /\ \A f, g \in Existing(fs) :
            (fo[f] = "exc" /\ (g.seq < f.seq \/ (g.seq = f.seq /\ f.lang = "ko" /\ g.lang = "en")))
               => fo[g] = "ok"}

(* the number of per-file GETs made: all, or up to the raising one *)
Fetches(fs, fo) ==
    Cardinality({f \in Existing(fs) :
        \A g \in Existing(fs) :
            fo[g] = "exc" => ~(f.seq < g.seq \/ (f.seq = g.seq /\ g.lang = "ko" /\ f.lang = "en"))})

load_posts_legacy(c, Cont(_, _)) ==
    Http(c, LAMBDA oDir, c1 :
      IF oDir # "ok" THEN Cont(<<>>, c1)
      ELSE \E fo \in FetchOutcomes(c1.files, c1.k) :
             Cont(FetchAll(c1.files, SelectSeq(SortedNames, LAMBDA f : c1.files[f] # NoFile),
                           fo, <<>>),
                  [c1 EXCEPT !.k = @ + Cardinality({f \in Existing(c1.files) : fo[f] # "ok"}),
                             !.n = @ + Fetches(c1.files, fo)]))

CacheFreshLate == cache.has /\ (now - cache.timestamp) <= ttl

CacheFresh == cache.has /\ (now - cache.timestamp) < ttl

NoList == [set |-> FALSE, lang |-> "", posts |-> <<>>]

Listed(lang, all_posts) == [set |-> TRUE, lang |-> lang, posts |-> FilterLang(all_posts, lang)]

ListLangs == {""}

LoadDone(c, lang, why, all_posts) ==
    /\ Done([c EXCEPT !.cache = [has |-> TRUE, data |-> all_posts, timestamp |-> now]],
            Ret("list", TRUE, why, 0, <<>>))
    /\ lastList' = Listed(lang, all_posts)

load_posts ==
    \E lang \in ListLangs :
      IF CacheFresh
      THEN /\ Done(Ctx0, Ret("list", TRUE, "hit", 0, <<>>))
           /\ lastList' = Listed(lang, cache.data)
      ELSE get_posts_index(Ctx0, LAMBDA index_data, c1 :
             IF index_data.exists THEN LoadDone(c1, lang, "index", index_data.posts)
             ELSE load_posts_legacy(c1, LAMBDA all_posts, c2 :
                    IF all_posts = <<>> THEN LoadDone(c2, lang, "legacy", all_posts)
                    ELSE save_posts_index(c2, all_posts, LAMBDA res, c3 :
                           IF res = "raised"
                           THEN Done(c3, Failed("list", "raised", 0)) /\ lastList' = NoList
                           ELSE LoadDone(c3, lang, "legacy", all_posts))))

(* ----------------------------- publish ---------------------------------- *)
FileId(date, num, suffix) == [date |-> date, seq |-> num, lang |-> suffix]

get_existing_posts_count(fs, date, oList) ==
    IF oList # "ok" THEN 0
    ELSE Cardinality({f \in PostIds : f.date = date /\ f.lang = "ko" /\ fs[f] # NoFile})

EnglishWriteRolledBack(c, post_num) ==
    Done([c EXCEPT !.files[FileId(Today, post_num, "ko")] = NoFile],
         Failed("publish", "en", post_num))

(* the English PUT was refused or raised: the exception leaves the handler
   with the Korean file written *)
EnglishWriteFailed(c, post_num) == Done(c, Failed("publish", "en", post_num))

publish_to_github(c0, title_ko, content_ko, title_en, content_en, tags, image_url) ==
    Http(c0, LAMBDA oList, c1 :
      IF oList = "exc" THEN Done(c1, Failed("publish", "raised", 0))
      ELSE
        LET post_num == get_existing_posts_count(c1.files, Today, oList) + 1
            ko == FileId(Today, post_num, "ko")
            en == FileId(Today, post_num, "en")
            tags_list == SplitTags(tags)
        IN /\ post_num \in Seqs
           /\ Http(c1, LAMBDA oKo, c2 :
                IF ~CreateOk(c2.files, ko, oKo) THEN Done(c2, Failed("publish", "ko", post_num))
                ELSE Http([c2 EXCEPT !.files[ko] =
                                FileContent(title_ko, tags, image_url, content_ko)],
                  LAMBDA oEn, c3 :
                    IF ~CreateOk(c3.files, en, oEn)
                    THEN EnglishWriteFailed(c3, post_num)
                    ELSE add_post_to_index(
                           [c3 EXCEPT !.files[en] =
                                FileContent(title_en, tags, image_url, content_en)],
                           Post(ko, title_ko, content_ko, tags_list, image_url),
                           Post(en, title_en, content_en, tags_list, image_url),
                           LAMBDA res, c4 :
                             IF res = "raised"
                             THEN Done(c4, Failed("publish", "raised", post_num))
                             ELSE Done(c4, Ret("publish", TRUE, res, post_num, <<ko, en>>))))))

admin_publish ==
    /\ Len(index.posts) + 2 <= MaxIndex
    /\ lastList' = NoList
    /\ \E data \in PublishRequests :
         IF data.title = "" \/ data.content = <<>>
         THEN Done(Asked(data, {"title", "content"}), Failed("publish", "validation", 0))
         ELSE \E oTr \in TrOutcomes :
                IF oTr # "ok"
                THEN Done(Translated(Ctx0, oTr), Failed("publish", "translate", 0))
                ELSE publish_to_github(Translated(Ctx0, oTr), data.title, data.content, EnTitle(data.title),
                                       EnContent(data.content), data.tags, data.image_url)

(* ------------------------------ update ---------------------------------- *)
BaseId(post_id) == [date |-> post_id.date, seq |-> post_id.seq]

Suffixed(base_id, suffix) == FileId(base_id.date, base_id.seq, suffix)

Updated(title, content, tags_list, image_url, date) ==
    [title |-> title, content |-> content, tags |-> tags_list,
     image_url |-> image_url, date |-> date]

(* the English PUT carries the sha when the GET found the file *)
EnWritten(fs, en, oGet, oPut) ==
    oPut = "ok" /\ (Found(fs, en, oGet) \/ fs[en] = NoFile)

KoreanPutRejectedInvalidating(c, num) ==
    Done(invalidate_cache(c), Failed("update", "ko", num))

(* the store refused the PUT of the Korean file: "KO update failed" *)
KoreanPutRejected(c, num) == Done(c, Failed("update", "ko", num))

UpdateFiles(c0, post_id, title, content, title_en, content_en, tags, image_url) ==
    LET base_id == BaseId(post_id)
        ko == Suffixed(base_id, "ko")
        en == Suffixed(base_id, "en")
        tags_list == SplitTags(tags)
        num == base_id.seq
    IN Http(c0, LAMBDA oGetKo, c1 :
         IF oGetKo = "exc" THEN Done(c1, Failed("update", "raised", num))
         ELSE IF ~Found(c1.files, ko, oGetKo) THEN Done(c1, Failed("update", "notfound", num))
         ELSE Http(c1, LAMBDA oPutKo, c2 :
           IF oPutKo = "exc" THEN Done(c2, Failed("update", "raised", num))
           ELSE IF oPutKo = "err" THEN KoreanPutRejected(c2, num)
           ELSE Http([c2 EXCEPT !.files[ko] = FileContent(title, tags, image_url, content)],
             LAMBDA oGetEn, c3 :
               IF oGetEn = "exc" THEN Done(c3, Failed("update", "raised", num))
               ELSE Http(c3, LAMBDA oPutEn, c4 :
                 IF oPutEn = "exc" THEN Done(c4, Failed("update", "raised", num))
                 ELSE update_post_in_index(
                        IF EnWritten(c4.files, en, oGetEn, oPutEn)
                        THEN [c4 EXCEPT !.files[en] =
                                 FileContent(title_en, tags, image_url, content_en)]
                        ELSE c4,
                        ko, Updated(title, content, tags_list, image_url, base_id.date),
                        LAMBDA r1, c5 :
                          IF r1 = "raised" THEN Done(c5, Failed("update", "raised", num))
                          ELSE update_post_in_index(c5, en,
                                 Updated(title_en, content_en, tags_list, image_url,
                                         base_id.date),
                                 LAMBDA r2, c6 :
                                   IF r2 = "raised"
                                   THEN Done(c6, Failed("update", "raised", num))
                                   ELSE Done(c6, Ret("update", TRUE, r2, num, <<ko, en>>))))))))

UpdateUntranslated(data, oTr) ==
    UpdateFiles(Translated(Asked(data, {"post_id", "title", "content"}), oTr), data.post_id, data.title, data.content,
                IF oTr # "ok" THEN data.title ELSE EnTitle(data.title),
                IF oTr = "exc" THEN data.content ELSE EnContent(data.content),
                data.tags, data.image_url)

(* step 1 of admin_update: translate first, stop when the call raises *)
UpdateTranslated(data, oTr) ==
    IF oTr = "exc"
    THEN Done(Translated(Asked(data, {"post_id", "title", "content"}), oTr),
              Failed("update", "translate", data.post_id.seq))
    ELSE UpdateFiles(Translated(Asked(data, {"post_id", "title", "content"}), oTr), data.post_id, data.title, data.content,
                     IF oTr = "notitle" THEN data.title ELSE EnTitle(data.title),
                     EnContent(data.content), data.tags, data.image_url)

admin_update ==
    /\ lastList' = NoList
    /\ \E data \in UpdateRequests :
         IF data.post_id = NoId \/ data.title = ""
         THEN Done(Asked(data, {"post_id", "title", "content"}),
                   Failed("update", "validation", 0))
         ELSE \E oTr \in TrOutcomes : UpdateTranslated(data, oTr)

(* ------------------------------ delete ---------------------------------- *)
(* one iteration of the loop over the suffixes; Cont(raised, deleted, c) *)
DeleteOne(c, deleted, file_id, Cont(_, _, _)) ==
    Http(c, LAMBDA oGet, c1 :
      IF oGet = "exc" THEN Cont(TRUE, deleted, c1)
      ELSE IF ~Found(c1.files, file_id, oGet) THEN Cont(FALSE, deleted, c1)
      ELSE Http(c1, LAMBDA oDel, c2 :
        IF oDel = "exc" THEN Cont(TRUE, deleted, c2)
        ELSE IF oDel = "err" THEN Cont(FALSE, deleted, c2)
        ELSE remove_post_from_index([c2 EXCEPT !.files[file_id] = NoFile], file_id,
               LAMBDA res, c3 : Cont(res = "raised", Append(deleted, file_id), c3))))

DeleteResult(deleted, num) ==
    IF deleted # <<>> THEN Ret("delete", TRUE, "", num, deleted)
    ELSE Failed("delete", "nothing", num)

admin_delete ==
    /\ lastList' = NoList
    /\ \E post_id \in ReqIds :
         IF post_id = NoId
         THEN Done(Asked(Request(post_id, "", <<>>, <<>>, ""), {"post_id"}),
                   Failed("delete", "validation", 0))
         ELSE DeleteOne(Ctx0, <<>>, Suffixed(BaseId(post_id), Suffixes[1]),
                LAMBDA x1, d1, c1 :
                  IF x1 THEN Done(c1, Failed("delete", "raised", post_id.seq))
                  ELSE DeleteOne(c1, d1, Suffixed(BaseId(post_id), Suffixes[2]),
                         LAMBDA x2, d2, c2 :
                           IF x2 THEN Done(c2, Failed("delete", "raised", post_id.seq))
                           ELSE Done(c2, DeleteResult(d2, post_id.seq))))

(* --------------------- automation agent (post_generator) ---------------- *)
agent_get_existing_posts_count(fs, date, oList) ==
    IF oList # "ok" THEN 0
    ELSE Cardinality({f \in PostIds : f.date = date /\ fs[f] # NoFile})

agent_publish_to_github ==
    /\ UNCHANGED lastList
    /\ \E post \in AgentPosts :
         Http(Ctx0, LAMBDA oList, c1 :
           IF oList = "exc" THEN Done(c1, Failed("agent", "raised", 0))
           ELSE
             LET post_num == agent_get_existing_posts_count(c1.files, Today, oList) + 1
                 ko == FileId(Today, post_num, "ko")
                 en == FileId(Today, post_num, "en")
             IN /\ post_num \in Seqs
                /\ Http(c1, LAMBDA oKo, c2 :
                     IF oKo = "exc" THEN Done(c2, Failed("agent", "raised", post_num))
                     ELSE IF ~CreateOk(c2.files, ko, oKo)
                     THEN Done(c2, Failed("agent", "ko", post_num))
                     ELSE Http([c2 EXCEPT !.files[ko] = AgentFileContent(post.title, post.content)],
                       LAMBDA oEn, c3 :
                         IF oEn = "exc" THEN Done(c3, Failed("agent", "raised", post_num))
                         ELSE IF ~CreateOk(c3.files, en, oEn)
                         THEN Done(c3, Failed("agent", "en", post_num))
                         ELSE Done([c3 EXCEPT !.files[en] =
                                       AgentFileContent(EnTitle(post.title),
                                                        EnContent(post.content))],
                                   Ret("agent", TRUE, "", post_num, <<ko, en>>)))))

Tick ==
    /\ now < T0 + MaxTicks * TickStep
    /\ now' = now + TickStep
    /\ UNCHANGED <<files, index, cache, ret, lastList, faults, pub, lst, doc, parsed, arg, out, rate, budget, gb>>

(* ------------------ concurrent publish requests ------------------------- *)
(* Two requests run publish_to_github one store call at a time; the store
   answers every call ("ok").  The sha of a document is its content.       *)
Procs == {1, 2}

Idle == [pc |-> "start", post_num |-> 0, index_data |-> NoIndex, sha |-> NoIndex]

RacePost == CHOOSE d \in PublishRequests : d.title # "" /\ d.content # <<>>

Goto(p, pc) == pub' = [pub EXCEPT ![p].pc = pc]

RaceCount(p) ==
    /\ pub[p].pc = "start"
    /\ get_existing_posts_count(files, Today, "ok") + 1 \in Seqs
    /\ pub' = [pub EXCEPT ![p].pc = "put_ko",
                          ![p].post_num = get_existing_posts_count(files, Today, "ok") + 1]
    /\ UNCHANGED <<files, index, cache, now, ret, lastList, faults, lst, doc, parsed, arg, out, rate, budget, gb>>

RacePut(p, pc, suffix, content, next) ==
    LET f == FileId(Today, pub[p].post_num, suffix) IN
    /\ pub[p].pc = pc
    /\ IF CreateOk(files, f, "ok")
       THEN files' = [files EXCEPT ![f] = content] /\ Goto(p, next)
       ELSE UNCHANGED files /\ Goto(p, "failed")
    /\ UNCHANGED <<index, cache, now, ret, lastList, faults, lst, doc, parsed, arg, out, rate, budget, gb>>

RacePutKo(p) ==
    RacePut(p, "put_ko", "ko", FileContent(RacePost.title, RacePost.tags, RacePost.image_url,
                                 RacePost.content), "put_en")

RacePutEn(p) ==
    RacePut(p, "put_en", "en", FileContent(EnTitle(RacePost.title), RacePost.tags, RacePost.image_url,
                                 EnContent(RacePost.content)), "get_index")

RaceGetIndex(p) ==
    /\ pub[p].pc = "get_index"
    /\ Len(index.posts) + 2 <= MaxIndex
    /\ pub' = [pub EXCEPT ![p].pc = "get_sha", ![p].index_data = IndexFetched(index, "ok")]
    /\ UNCHANGED <<files, index, cache, now, ret, lastList, faults, lst, doc, parsed, arg, out, rate, budget, gb>>

RaceGetSha(p) ==
    /\ pub[p].pc = "get_sha"
    /\ pub' = [pub EXCEPT ![p].pc = "put_index", ![p].sha = index]
    /\ UNCHANGED <<files, index, cache, now, ret, lastList, faults, lst, doc, parsed, arg, out, rate, budget, gb>>

(* PUT of the index: accepted when the sha sent is the document's current one *)
RacePutIndex(p) ==
    LET ko == FileId(Today, pub[p].post_num, "ko")
        en == FileId(Today, pub[p].post_num, "en")
        tags_list == SplitTags(RacePost.tags)
        posts == InsertFront(pub[p].index_data.posts,
                    Post(ko, RacePost.title, RacePost.content, tags_list, RacePost.image_url),
                    Post(en, EnTitle(RacePost.title), EnContent(RacePost.content), tags_list,
                         RacePost.image_url))
    IN /\ pub[p].pc = "put_index"
       /\ index' = IF pub[p].sha = index THEN IndexDoc(posts) ELSE index
       /\ cache' = EmptyCache
       /\ Goto(p, "done")
       /\ UNCHANGED <<files, now, ret, lastList, faults, lst, doc, parsed, arg, out, rate, budget, gb>>

(* a list request at rest, and the decoder before it has run *)
IdleList == [pc |-> "start", now |-> 0, all_posts |-> <<>>, miss |-> FALSE,
             fetched |-> NoList, result |-> NoList, wrote |-> 0]

NoParse == [set |-> FALSE, title |-> "", content |-> <<>>, tags |-> <<>>, image_url |-> ""]

RaceReturn(p) ==
    /\ pub[p].pc \in {"done", "failed"}
    /\ pub' = [pub EXCEPT ![p] = Idle]
    /\ UNCHANGED <<files, index, cache, now, ret, lastList, faults, lst, doc, parsed, arg, out, rate, budget, gb>>

(* ------------------- concurrent list requests --------------------------- *)
(* Two requests run load_posts one statement at a time while publishes go on
   around them; the store answers every call of a list request ("ok").  A
   request keeps its own now and all_posts; fetched is the index content its
   fetch saw; wrote is 2 for the request that wrote _posts_cache["data"]
   last and 1 for one that wrote it before.                                 *)
ListGoto(p, pc) == lst' = [lst EXCEPT ![p].pc = pc]

ListStart(p) ==
    /\ lst[p].pc = "start"
    /\ lst' = [lst EXCEPT ![p] =
                 IF CacheFresh
                 THEN [@ EXCEPT !.pc = "return", !.now = now, !.all_posts = cache.data]
                 ELSE [@ EXCEPT !.pc = "fetch", !.now = now, !.miss = TRUE]]
    /\ UNCHANGED <<files, index, cache, now, ret, lastList, faults, pub, doc, parsed, arg, out, rate, budget, gb>>

ListFetch(p) ==
    LET index_data == IndexFetched(index, "ok")
        rebuilt == FetchAll(files, SelectSeq(SortedNames, LAMBDA f : files[f] # NoFile),
                            [f \in Existing(files) |-> "ok"], <<>>)
    IN /\ lst[p].pc = "fetch"
       /\ lst' = [lst EXCEPT ![p] =
                    IF index_data.exists
                    THEN [@ EXCEPT !.pc = "store_data", !.all_posts = index_data.posts,
                                   !.fetched = Listed("", index_data.posts)]
                    ELSE [@ EXCEPT !.pc = IF rebuilt # <<>> THEN "save" ELSE "store_data",
                                   !.all_posts = rebuilt]]
       /\ UNCHANGED <<files, index, cache, now, ret, lastList, faults, pub, doc, parsed, arg, out, rate, budget, gb>>

ListSave(p) ==
    /\ lst[p].pc = "save"
    /\ index' = IndexSaved(index, lst[p].all_posts, "ok", "ok")
    /\ ListGoto(p, "store_data")
    /\ UNCHANGED <<files, cache, now, ret, lastList, faults, pub, doc, parsed, arg, out, rate, budget, gb>>

ListStoreData(p) ==
    /\ lst[p].pc = "store_data"
    /\ cache' = [cache EXCEPT !.has = TRUE, !.data = lst[p].all_posts]
    /\ lst' = [q \in Procs |->
                 IF q = p THEN [lst[q] EXCEPT !.pc = "store_timestamp", !.wrote = 2]
                 ELSE [lst[q] EXCEPT !.wrote = IF @ > 0 THEN 1 ELSE 0]]
    /\ UNCHANGED <<files, index, now, ret, lastList, faults, pub, doc, parsed, arg, out, rate, budget, gb>>

ListStoreTimestamp(p) ==
    /\ lst[p].pc = "store_timestamp"
    /\ cache' = [cache EXCEPT !.timestamp = lst[p].now]
    /\ ListGoto(p, "return")
    /\ UNCHANGED <<files, index, now, ret, lastList, faults, pub, doc, parsed, arg, out, rate, budget, gb>>

ListReturnShared(p) ==
    /\ lst[p].pc = "return"
    /\ lst' = [lst EXCEPT ![p].pc = "done", ![p].result = Listed("", cache.data)]
    /\ UNCHANGED <<files, index, cache, now, ret, lastList, faults, pub, doc, parsed, arg, out, rate, budget, gb>>

ListReturn(p) ==
    /\ lst[p].pc = "return"
    /\ lst' = [lst EXCEPT ![p].pc = "done", ![p].result = Listed("", lst[p].all_posts)]
    /\ UNCHANGED <<files, index, cache, now, ret, lastList, faults, pub, doc, parsed, arg, out, rate, budget, gb>>

(* the response is sent; the worker takes the next request *)
ListFinish(p) ==
    /\ lst[p].pc = "done"
    /\ lst' = [lst EXCEPT ![p] = IdleList]
    /\ UNCHANGED <<files, index, cache, now, ret, lastList, faults, pub, doc, parsed, arg, out, rate, budget, gb>>

(* ------------------------- decoding a text ------------------------------ *)
(* the lines a post file may hold, written by the application or by hand *)
DocLines ==
    {Blank, Plain("t"), Plain("t "), Line("TAGS:", "", <<"a">>), Line("TAGS:", "", <<"b", "">>),
     Line("TAGS:", "", <<"">>), Line("IMAGE:", "u", <<>>), Line("IMAGE:", "v", <<>>)}

Docs == UNION {[1..n -> DocLines] : n \in 0..MaxLines}

Decode ==
    /\ ~parsed.set
    /\ parsed' = [set |-> TRUE, title |-> parse_post_content(doc).title,
                  content |-> parse_post_content(doc).content,
                  tags |-> parse_post_content(doc).tags,
                  image_url |-> parse_post_content(doc).image_url]
    /\ UNCHANGED <<files, index, cache, now, ret, lastList, faults, pub, lst, doc, arg, out, rate, budget, gb>>

(* ----------------------- the list page: index() ------------------------- *)
(* Titles and bodies are words over Chars here, so that search_posts can be
   computed on them; str.lower() maps "A" to "a" and keeps the other two.   *)
Chars == {"a", "A", "b"}

Words(n) == UNION {[1..k -> Chars] : k \in 0..n}

lower(ch) == IF ch = "A" THEN "a" ELSE ch

Lower(s) == [i \in 1..Len(s) |-> lower(s[i])]

(* Python's  q in s  on strings *)
Contains(s, q) == \E i \in 0..(Len(s) - Len(q)) : SubSeq(s, i + 1, i + Len(q)) = q

search_posts_exact(posts, query) ==
    IF query = <<>> THEN posts
    ELSE SelectSeq(posts, LAMBDA p : \/ Contains(Lower(p.title), query)
                                     \/ Contains(Lower(p.content), query))

search_posts(posts, query) ==
    IF query = <<>> THEN posts
    ELSE SelectSeq(posts, LAMBDA p : \/ Contains(Lower(p.title), Lower(query))
                                     \/ Contains(Lower(p.content), Lower(query)))

Max(a, b) == IF a >= b THEN a ELSE b

Min(a, b) == IF a <= b THEN a ELSE b

total_pages_floor(total_posts) == Max(1, total_posts \div per_page)

total_pages(total_posts) == Max(1, (total_posts + per_page - 1) \div per_page)

(* posts[start:end] for 0 <= start <= end *)
Slice(posts, start, end) == SubSeq(posts, start + 1, Min(end, Len(posts)))

paginate(posts, page) ==
    LET pages == total_pages(Len(posts))
        used == Max(1, Min(page, pages))
        start == (used - 1) * per_page
        end == start + per_page
    IN [page |-> used, total_pages |-> pages, paginated_posts |-> Slice(posts, start, end)]

Entry(num, title, content, lang) ==
    [num |-> num, title |-> title, content |-> content, lang |-> lang]

Entries == {Entry(0, t, c, l) : t \in Words(MaxWord), c \in {<<>>, <<"A">>}, l \in Langs}

EntryLists == UNION {[1..n -> Entries] : n \in 0..MaxPosts}

Asking(posts, lang, query, page) ==
    [posts |-> posts, lang |-> lang, query |-> query, page |-> page]

NoArg == Asking(<<>>, "", <<>>, 0)

NoOut == [set |-> FALSE, posts |-> <<>>, page |-> 0, total_pages |-> 0,
          paginated_posts |-> <<>>]

(* requests that search a short list, and requests that page through a long one *)
ViewArgs ==
    {Asking(ps, l, q, 1) : ps \in EntryLists, l \in Langs \cup {""}, q \in Words(MaxWord)}
    \cup {Asking([i \in 1..n |-> Entry(i, <<>>, <<>>, "ko")], "", <<>>, pg) :
            n \in 0..MaxTotal, pg \in (0 - MaxPage)..MaxPage}

View ==
    /\ ~out.set
    /\ LET posts == FilterLang(arg.posts, arg.lang)
           found == IF arg.query # <<>> THEN search_posts(posts, arg.query) ELSE posts
           shown == paginate(found, arg.page)
       IN out' = [set |-> TRUE, posts |-> found, page |-> shown.page,
                  total_pages |-> shown.total_pages,
                  paginated_posts |-> shown.paginated_posts]
    /\ UNCHANGED <<files, index, cache, now, ret, lastList, faults, pub, lst, doc, parsed,
                   arg, rate, budget, gb>>

(* --------------------------- guestbook ---------------------------------- *)
Clients == {"ip1", "ip2"}

NoRate == [ip \in {} |-> 0]

(* a guestbook body: the lengths of the stripped nickname and message, and
   whether the honeypot field is filled                                     *)
GuestBody(nickname, message, website) ==
    [nickname |-> nickname, message |-> message, website |-> website]

GuestBodies ==
    {GuestBody(1, 1, FALSE), GuestBody(1, 1, TRUE), GuestBody(0, 1, FALSE),
     GuestBody(1, 0, FALSE), GuestBody(max_nickname + 1, 1, FALSE),
     GuestBody(1, max_message + 1, FALSE)}

(* d.get(key, 0) *)
Get(d, key) == IF key \in DOMAIN d THEN d[key] ELSE 0

(* d[key] = value *)
Put(d, key, value) == [k \in DOMAIN d \cup {key} |-> IF k = key THEN value ELSE d[k]]

(* {ip: t for ip, t in d.items() if at - t < sweep_age} *)
Recent(d, at) == [k \in {ip \in DOMAIN d : at - d[ip] < sweep_age} |-> d[k]]

(* d.update(e) *)
DictUpdate(d, e) == [k \in DOMAIN d \cup DOMAIN e |-> IF k \in DOMAIN e THEN e[k] ELSE d[k]]

Answer(r) == ret' = r /\ rate' = rate

add_guestbook ==
    /\ \E data \in GuestBodies, client_ip \in Clients, oInsert \in {"ok", "exc"} :
         IF data.website THEN Answer(Ret("guestbook", TRUE, "honeypot", 0, <<>>))
         ELSE IF data.nickname = 0 \/ data.message = 0
         THEN Answer(Failed("guestbook", "validation", 0))
         ELSE IF data.nickname > max_nickname \/ data.message > max_message
         THEN Answer(Failed("guestbook", "too_long", 0))
         ELSE IF now - Get(rate, client_ip) < rate_window
         THEN Answer(Failed("guestbook", "rate_limited", 0))
         ELSE /\ rate' = LET d == Put(rate, client_ip, now) IN DictUpdate(d, Recent(d, now))
              /\ ret' = IF oInsert = "ok" THEN Ret("guestbook", TRUE, "inserted", 0, <<>>)
                        ELSE Failed("guestbook", "insert", 0)
    /\ UNCHANGED <<files, index, cache, now, lastList, faults, pub, lst, doc, parsed,
                   arg, out, budget, gb>>

GuestTick ==
    /\ now < T0 + MaxGuestTicks * GuestStep
    /\ now' = now + GuestStep
    /\ UNCHANGED <<files, index, cache, ret, lastList, faults, pub, lst, doc, parsed,
                   arg, out, rate, budget, gb>>

(* ------------------ concurrent guestbook requests ----------------------- *)
(* Two requests run add_guestbook one access to _guestbook_rate_limit at a
   time.  A request keeps its own client_ip and now (at) and the dict its
   comprehension built (recent); passed lists, in the order of the writes of
   line 527, the client and time of every request that passed the check.   *)
IdleGuest == [pc |-> "start", ip |-> "", at |-> 0, recent |-> NoRate]

NoGuests == [req |-> [p \in Procs |-> IdleGuest], passed |-> <<>>]

GbGoto(p, pc) == gb' = [gb EXCEPT !.req[p].pc = pc]

GbFrame == UNCHANGED <<files, index, cache, now, ret, lastList, faults, pub, lst, doc, parsed,
                       arg, out, budget>>

(* lines 497-525: validation, then the read of the clock and of the map *)
GbStart(p) ==
    /\ gb.req[p].pc = "start"
    /\ Len(gb.passed) < MaxPasses
    /\ \E data \in GuestBodies, client_ip \in Clients :
         gb' = [gb EXCEPT !.req[p] =
                  IF \/ data.website \/ data.nickname = 0 \/ data.message = 0
                     \/ data.nickname > max_nickname \/ data.message > max_message
                     \/ now - Get(rate, client_ip) < rate_window
                  THEN [@ EXCEPT !.pc = "done"]
                  ELSE [@ EXCEPT !.pc = "write", !.ip = client_ip, !.at = now]]
    /\ rate' = rate
    /\ GbFrame

(* line 527 *)
GbWrite(p) ==
    /\ gb.req[p].pc = "write"
    /\ rate' = Put(rate, gb.req[p].ip, gb.req[p].at)
    /\ gb' = [gb EXCEPT !.req[p].pc = "sweep",
                        !.passed = Append(@, <<gb.req[p].ip, gb.req[p].at>>)]
    /\ GbFrame

(* lines 531-532: the comprehension reads the map *)
GbSweep(p) ==
    /\ gb.req[p].pc = "sweep"
    /\ gb' = [gb EXCEPT !.req[p].pc = "update", !.req[p].recent = Recent(rate, gb.req[p].at)]
    /\ rate' = rate
    /\ GbFrame

(* line 530: update() writes it back *)
GbUpdate(p) ==
    /\ gb.req[p].pc = "update"
    /\ rate' = DictUpdate(rate, gb.req[p].recent)
    /\ GbGoto(p, "insert")
    /\ GbFrame

(* lines 535-542 *)
GbInsert(p) ==
    /\ gb.req[p].pc = "insert"
    /\ GbGoto(p, "done")
    /\ rate' = rate
    /\ GbFrame

GbFinish(p) ==
    /\ gb.req[p].pc = "done"
    /\ gb' = [gb EXCEPT !.req[p] = IdleGuest]
    /\ rate' = rate
    /\ GbFrame

Started ==
    /\ files = [f \in PostIds |-> NoFile]
    /\ index \in {NoIndex, IndexDoc(<<>>)}
    /\ cache = EmptyCache
    /\ now = T0
    /\ ret = Ret("none", TRUE, "", 0, <<>>)
    /\ lastList = NoList
    /\ faults = 0
    /\ pub = [p \in Procs |-> Idle]
    /\ lst = [p \in Procs |-> IdleList]
    /\ parsed = NoParse
    /\ out = NoOut
    /\ rate = NoRate
    /\ gb = NoGuests

Init == Started /\ doc = <<>> /\ arg = NoArg /\ budget = MaxFaults

InitParse == Started /\ doc \in Docs /\ arg = NoArg /\ budget = MaxFaults

(* an outage of the store: more than one call of a behaviour may fail *)
InitOutage == Started /\ doc = <<>> /\ arg = NoArg /\ budget = OutageFaults

InitView ==
    Started /\ index = NoIndex /\ doc = <<>> /\ arg \in ViewArgs /\ budget = MaxFaults

Next ==
    \/ load_posts
    \/ admin_publish
    \/ admin_update
    \/ admin_delete
    \/ agent_publish_to_github
    \/ Tick

Spec == Init /\ [][Next]_vars

NextRace ==
    \E p \in Procs :
      \/ RaceCount(p)
      \/ RacePutKo(p)
      \/ RacePutEn(p)
      \/ RaceGetIndex(p)
      \/ RaceGetSha(p)
      \/ RacePutIndex(p)
      \/ RaceReturn(p)

SpecRace == Init /\ [][NextRace]_vars

NextList ==
    \/ \E p \in Procs :
          \/ ListStart(p)
          \/ ListFetch(p)
          \/ ListSave(p)
          \/ ListStoreData(p)
          \/ ListStoreTimestamp(p)
          \/ ListReturn(p)
          \/ ListFinish(p)
    \/ admin_publish
    \/ agent_publish_to_github
    \/ Tick

SpecList == Init /\ [][NextList]_vars

NextParse == Decode

SpecParse == InitParse /\ [][NextParse]_vars

NextView == View

SpecView == InitView /\ [][NextView]_vars

NextGuest ==
    \/ add_guestbook
    \/ GuestTick

SpecGuest == Init /\ [][NextGuest]_vars

NextOutage ==
    \/ load_posts
    \/ admin_publish
    \/ Tick

SpecOutage == InitOutage /\ [][NextOutage]_vars

NextGuestRace ==
    \/ \E p \in Procs :
          \/ GbStart(p)
          \/ GbWrite(p)
          \/ GbSweep(p)
          \/ GbUpdate(p)
          \/ GbInsert(p)
          \/ GbFinish(p)
    \/ GuestTick

SpecGuestRace == Init /\ [][NextGuestRace]_vars

(* =============================== claims ================================= *)
(* A step that leaves the clock alone is a handler's, and ret' is what that
   handler returned.                                                        *)
Returned(op) == now' = now /\ ret'.op = op

Mutating == {"publish", "update", "delete"}

Pair(num) == {FileId(Today, num, "ko"), FileId(Today, num, "en")}

(* C1: after a publish has returned success, the next list call, whenever it
   is made, returns a post list that contains both new entries.             *)
C1_PublishedPostIsListed ==
    [][(Returned("list") /\ ret.op = "publish" /\ ret.ok)
          => (ret'.ok /\ {ret.ids[1], ret.ids[2]} \subseteq Ids(lastList'.posts))]_vars

(* C2: when publish, update or delete has returned success the cache is
   empty (no data, timestamp 0).                                            *)
C2_MutationLeavesCacheEmpty ==
    (ret.op \in Mutating /\ ret.ok) => cache = EmptyCache

(* C3: when publish, update or delete has returned, with success or failure,
   the store holds both files of the pair it worked on or neither, and the
   index holds both entries or neither.                                     *)
C3_PairingInvariant ==
    (ret.op \in Mutating /\ ret.num \in Seqs) =>
        LET ko == FileId(Today, ret.num, "ko")
            en == FileId(Today, ret.num, "en")
        IN /\ (files[ko] = NoFile) <=> (files[en] = NoFile)
           /\ (ko \in Ids(index.posts)) <=> (en \in Ids(index.posts))

(* C4: two concurrent publish requests on a date without posts never both
   compute sequence number 1 and use it in their file writes.               *)
C4_ConcurrentPublishesGetDistinctNumbers ==
    ~(\A p \in Procs : pub[p].post_num = 1 /\ pub[p].pc \notin {"start", "put_ko"})

(* C5: the sequence number a publish computes is never the sequence number
   of a post file that already exists for that date.                        *)
C5_SequenceNumberIsFresh ==
    [][(Returned("publish") /\ ret'.num \in Seqs)
          => \A f \in Pair(ret'.num) : files[f] = NoFile]_vars

(* C6: a successful publish on a date with n post pairs creates exactly the
   two files numbered n+1 and adds exactly two index entries, with those ids. *)
C6_PublishCreatesNextPair ==
    [][(Returned("publish") /\ ret'.ok) =>
          LET n == Cardinality({q \in Seqs : \A f \in Pair(q) : files[f] # NoFile}) IN
          /\ ret'.num = n + 1
          /\ Existing(files') \ Existing(files) = Pair(n + 1)
          /\ \A f \in Existing(files) : files'[f] = files[f]
          /\ index'.exists
          /\ Len(index'.posts) = Len(index.posts) + 2
          /\ Ids(index'.posts) = Ids(index.posts) \cup Pair(n + 1)]_vars

(* C7: a list call is served from the cache, without a store call, exactly
   when the cache holds data younger than ttl; then it returns the cached
   snapshot, which is what the previous list call returned when no mutating
   operation ran in between, whatever happened to the store; otherwise it
   contacts the store and a fetched index is what it returns.               *)
C7_CacheHitRule ==
    [][Returned("list") =>
          /\ (ret'.calls = 0) <=> (cache.has /\ now - cache.timestamp < ttl)
          /\ ret'.calls = 0 =>
                /\ ret'.ok /\ lastList'.posts = cache.data
                /\ lastList.set => lastList'.posts = lastList.posts
                /\ files' = files /\ index' = index /\ cache' = cache
          /\ (ret'.calls > 0 /\ ret'.why = "index") => lastList'.posts = index.posts]_vars

(* a list call answered from the cache with the empty snapshot taken before
   post files were written behind the cache's back *)
C7_Witness ==
    /\ ret.op = "list" /\ ret.calls = 0 /\ faults = 0
    /\ lastList.set /\ lastList.posts = <<>>
    /\ Existing(files) # {}

(* C8: a delete request for a post whose two files are both absent returns
   success, reports nothing deleted and leaves store and index unchanged.   *)
C8_DeleteOfAbsentPostSucceeds ==
    [][(Returned("delete") /\ ret'.why # "validation" /\ ret'.num \in Seqs
          /\ \A f \in Pair(ret'.num) : files[f] = NoFile)
          => (ret'.ok /\ ret'.ids = <<>> /\ files' = files /\ index' = index)]_vars

(* C9: delete returns success exactly when one of the two file deletes
   succeeded, and every id it reports is then absent from the store and
   from the index document.                                                 *)
C9_DeleteReportsWhatItRemoved ==
    [][(Returned("delete") /\ ret'.why # "validation") =>
          /\ ret'.ok <=> (\E f \in PostIds : files[f] # NoFile /\ files'[f] = NoFile)
          /\ \A i \in 1..Len(ret'.ids) :
                /\ files'[ret'.ids[i]] = NoFile
                /\ ret'.ids[i] \notin Ids(index'.posts)]_vars

(* C10: when the translation call of a publish or an update raises, the
   operation returns an error without a store call, and files, index and
   cache are as they were.                                                  *)
C10_TranslationFailureTouchesNothing ==
    [][(now' = now /\ ret'.op \in {"publish", "update"} /\ ret'.tr = "exc") =>
          /\ ~ret'.ok /\ ret'.calls = 0
          /\ files' = files /\ index' = index /\ cache' = cache]_vars

(* an update of an existing, cached post whose translation raised *)
C10_Witness ==
    /\ ret.op = "update" /\ ret.tr = "exc" /\ ~ret.ok
    /\ ret.num \in Seqs /\ \A f \in Pair(ret.num) : files[f] # NoFile
    /\ cache.has /\ index.exists /\ faults = 0

(* C11: when an update has returned success, the English file of the post
   holds the translation that update produced from the title and content now
   in the Korean file (the title itself when the translation carried no
   title), with the same tags and image.                                    *)
C11_UpdateWritesEnglish ==
    [][(Returned("update") /\ ret'.ok) =>
          LET ko == FileId(Today, ret'.num, "ko")
              en == FileId(Today, ret'.num, "en")
              k == parse_post_content(files'[ko])
          IN /\ files'[en] # NoFile
             /\ parse_post_content(files'[en]) =
                  [title |-> IF ret'.tr = "notitle" THEN k.title ELSE EnTitle(k.title),
                   content |-> EnContent(k.content), tags |-> k.tags,
                   image_url |-> k.image_url]]_vars

(* C12: a publish whose Korean file was written and whose English write
   failed returns failure, leaves the new Korean file and no English file,
   and leaves index and cache as they were.                                 *)
C12_PublishPartialFailure ==
    [][(Returned("publish") /\ ret'.why = "en") =>
          LET ko == FileId(Today, ret'.num, "ko")
              en == FileId(Today, ret'.num, "en")
          IN /\ ~ret'.ok
             /\ files[ko] = NoFile /\ files'[ko] # NoFile
             /\ \A f \in PostIds \ {ko} : files'[f] = files[f]
             /\ index' = index
             /\ cache' = cache]_vars

(* a failed publish that left its Korean file behind a populated cache *)
C12_Witness ==
    /\ ret.op = "publish" /\ ret.why = "en" /\ ~ret.ok
    /\ files[FileId(Today, ret.num, "ko")] # NoFile
    /\ files[FileId(Today, ret.num, "en")] = NoFile
    /\ cache.has /\ index.exists

(* a list call that answered from the rebuild path while the index document
   was absent *)
Rebuilt == Returned("list") /\ ret'.ok /\ ret'.why = "legacy" /\ ~index.exists

(* C13: with the index document absent, the list a rebuild returns has
   exactly one summary per post file of the store, each the decoding of that
   file with id, lang and date from its name; no stored file is omitted,
   whatever the outcome of the fetches.                                     *)
C13_RebuildDecodesEveryFile ==
    [][Rebuilt =>
          /\ Len(lastList'.posts) = Cardinality(Existing(files))
          /\ \A f \in Existing(files) :
                LET d == parse_post_content(files[f]) IN
                \E i \in 1..Len(lastList'.posts) :
                    lastList'.posts[i] = Post(f, d.title, d.content, d.tags, d.image_url)]_vars

(* C14: after a list call that found the index document absent has
   returned, the index document exists and its posts are the list the call
   returned, for every content of the store.                                *)
C14_RebuildPersistsIndex ==
    [][Rebuilt => (index'.exists /\ index'.posts = lastList'.posts)]_vars

(* C15: while the index document exists, a failed fetch of it is not taken
   for absence: no list call answers from the rebuild path, no list call
   rewrites the document, and a successful publish keeps every entry the
   document had.                                                            *)
C15_FetchFailureIsNotAbsence ==
    [][(now' = now /\ index.exists) =>
          /\ ret'.op = "list" => (ret'.why # "legacy" /\ index' = index)
          /\ (ret'.op = "publish" /\ ret'.ok) =>
                \A i \in 1..Len(index.posts) :
                    \E j \in 1..Len(index'.posts) : index'.posts[j] = index.posts[i]]_vars

(* C16: when two publish requests interleave their index updates, each
   reading the index before the other has saved it, the index holds the
   entries of both once both have finished (no save overwrites the other).  *)
C16_NoLostIndexUpdate ==
    (\A p \in Procs : pub[p].pc = "done") =>
        \A p \in Procs : Pair(pub[p].post_num) \subseteq Ids(index.posts)

Later(p, q) == lst[p].wrote > lst[q].wrote

(* C17: when two list requests have both missed the cache and finished,
   each has returned the post list of the index document as its own fetch
   saw it, and the cache, when it holds data, holds exactly the list of the
   request that wrote the cache last.                                       *)
C17_ConcurrentMissesAreSafe ==
    /\ \A p \in Procs :
          (lst[p].pc = "done" /\ lst[p].miss /\ lst[p].fetched.set)
             => lst[p].result.posts = lst[p].fetched.posts
    /\ ((\A p \in Procs : lst[p].pc = "done" /\ lst[p].miss) /\ cache.has)
          => \E p \in Procs :
                /\ \A q \in Procs \ {p} : Later(p, q)
                /\ cache.data = lst[p].all_posts

(* both requests missed and overlapped: a publish changed the index between
   their fetches, and the one that fetched first wrote the cache last *)
C17_Witness ==
    /\ \A p \in Procs : lst[p].pc = "done" /\ lst[p].miss /\ lst[p].fetched.set
    /\ \E p, q \in Procs :
          Later(p, q) /\ Len(lst[p].result.posts) < Len(lst[q].result.posts)
    /\ cache.has

(* ---- the decoding rule of the design: title, metadata block, body ------- *)
IsMeta(l) == l.pfx # ""

RECURSIVE MetaBlock(_)
MetaBlock(ls) ==
    IF ls # <<>> /\ IsMeta(Head(ls)) THEN <<Head(ls)>> \o MetaBlock(Tail(ls)) ELSE <<>>

AfterBlock(ls) == SubSeq(ls, Len(MetaBlock(ls)) + 1, Len(ls))

Occurrences(ls, pfx) == {i \in 1..Len(ls) : ls[i].pfx = pfx}

LastOccurrence(ls, pfx) == CHOOSE i \in Occurrences(ls, pfx) : \A j \in Occurrences(ls, pfx) : j <= i

TagsIn(ls) ==
    IF Occurrences(ls, "TAGS:") = {} THEN <<>>
    ELSE SelectSeq(ls[LastOccurrence(ls, "TAGS:")].tags, LAMBDA t : t # "")

ImageIn(ls) ==
    IF Occurrences(ls, "IMAGE:") = {} THEN "" ELSE ls[LastOccurrence(ls, "IMAGE:")].txt

Raws(ls) == [i \in 1..Len(ls) |-> RawLine(ls[i])]

Rest(ls) == IF ls = <<>> THEN <<>> ELSE Tail(ls)

Decoded == [title |-> parsed.title, content |-> parsed.content, tags |-> parsed.tags,
            image_url |-> parsed.image_url]

(* C18: after the title line the lines are examined for TAGS:/IMAGE: only up
   to the first line with neither prefix; that line and all after it are the
   body, so a TAGS: or IMAGE: line after it stays in the content and leaves
   tags and image_url alone.                                                *)
C18_SequentialScan ==
    parsed.set =>
        LET ls == Rest(StripText(doc)) IN
        /\ parsed.tags = TagsIn(MetaBlock(ls))
        /\ parsed.image_url = ImageIn(MetaBlock(ls))
        /\ parsed.content = Strip(Raws(AfterBlock(ls)))

(* C19: for any text the decoder returns a tuple whose title is the first
   line of the text, whose tags are the non-empty entries of its TAGS: line
   (none without such a line), whose image_url is the value of its IMAGE:
   line (empty without such a line) and whose content is the other lines
   after the first, trimmed.                                                *)
C19_DecodeFillsDefaults ==
    parsed.set =>
        /\ parsed.title = (IF doc = <<>> THEN "" ELSE RawLine(doc[1]))
        /\ parsed.tags = TagsIn(Rest(doc))
        /\ parsed.image_url = ImageIn(Rest(doc))
        /\ parsed.content = Strip(Raws(SelectSeq(Rest(doc), LAMBDA l : ~IsMeta(l))))

SwapAt(ls, i) == [j \in 1..Len(ls) |-> IF j = i THEN ls[i + 1] ELSE IF j = i + 1 THEN ls[i] ELSE ls[j]]

(* C20: exchanging a TAGS: line and an IMAGE: line that are neighbours in
   the metadata block does not change what is decoded, and of a prefix that
   occurs more than once in the metadata block the last occurrence there is
   the value returned.                                                      *)
C20_OrderAndLastOccurrence ==
    parsed.set =>
        LET lines == StripText(doc)
            block == MetaBlock(Rest(lines))
        IN /\ \A i \in 1..(Len(block) - 1) :
                block[i].pfx # block[i + 1].pfx
                   => parse_post_content(SwapAt(lines, i + 1)) = Decoded
           /\ Cardinality(Occurrences(block, "TAGS:")) > 1 => parsed.tags = TagsIn(block)
           /\ Cardinality(Occurrences(block, "IMAGE:")) > 1 => parsed.image_url = ImageIn(block)

(* C21: decoding a text, encoding the result in the stored format (title
   line, TAGS: line when there are tags, IMAGE: line when there is an image,
   blank line, body) and decoding again gives the title, tags, image_url
   and content of the first decoding.                                       *)
C21_CodecRoundTrip ==
    parsed.set =>
        parse_post_content(FileContent(parsed.title, parsed.tags, parsed.image_url,
                                       parsed.content)) = Decoded

(* C23 as the source has it: a list call never creates, changes or deletes a
   post file, and it writes the index document only on the rebuild path, to
   store the non-empty list it rebuilt from the files and returns.          *)
C23_ListWritesOnlyRebuiltIndex ==
    [][Returned("list") =>
          /\ files' = files
          /\ index' # index =>
                /\ ret'.why = "legacy"
                /\ lastList'.posts # <<>>
                /\ index' = IndexDoc(lastList'.posts)]_vars

(* a list call that found no index document, rebuilt the list from the files
   and stored it as the index document                                       *)
C23_Witness ==
    /\ ret.op = "list" /\ ret.ok /\ ret.why = "legacy" /\ faults = 0
    /\ index.exists /\ index.posts # <<>> /\ index.posts = lastList.posts

(* C23: a list call never creates, modifies or deletes a post file or the
   index document, whatever the store holds, the index document absent
   included.                                                                *)
C23_ListHasNoSideEffects ==
    [][Returned("list") => files' = files /\ index' = index]_vars

(* C25: a publish or an update whose translation answer lacks the title key
   returns an error and leaves the files and the index as they were.        *)
C25_IncompleteTranslationIsFailure ==
    [][(now' = now /\ ret'.op \in {"publish", "update"} /\ ret'.tr = "notitle") =>
          ~ret'.ok /\ files' = files /\ index' = index]_vars

(* C26: a publish without title or content, an update without post id, title
   or content and a delete without post id are rejected before any call to
   the translation or the store: files, index and cache stay as they were.  *)
C26_ValidationPrecedesIO ==
    [][(now' = now /\ ret'.op \in Mutating /\ ret'.lacking) =>
          /\ ~ret'.ok /\ ret'.calls = 0 /\ ret'.tr = ""
          /\ files' = files /\ index' = index /\ cache' = cache]_vars

(* C29: when an update has returned success the index document exists and
   holds an entry for each file of the pair with the title, content, tags and
   image that file now carries.                                             *)
C29_UpdateUpsertsIndexEntries ==
    [][(Returned("update") /\ ret'.ok) =>
          /\ index'.exists
          /\ \A f \in Pair(ret'.num) :
                \E i \in 1..Len(index'.posts) :
                  LET e == index'.posts[i]
                      d == parse_post_content(files'[f])
                  IN /\ e.id = f
                     /\ e.title = d.title /\ e.content = d.content
                     /\ e.tags = d.tags /\ e.image_url = d.image_url]_vars

(* C30: an update of a post whose Korean file is absent answers "not found";
   when the Korean file is absent or its PUT is rejected the update returns an
   error and the English file, the index document and the cache are as they
   were.                                                                    *)
C30_KoreanWriteGuardsTheRest ==
    [][(Returned("update") /\ ret'.num \in Seqs) =>
          LET ko == FileId(Today, ret'.num, "ko")
              en == FileId(Today, ret'.num, "en")
          IN /\ (files[ko] = NoFile /\ ret'.calls > 0 /\ ret'.why # "raised")
                   => ret'.why = "notfound"
             /\ ret'.why \in {"notfound", "ko"} =>
                   /\ ~ret'.ok
                   /\ files'[en] = files[en] /\ index' = index /\ cache' = cache]_vars

(* an update of a listed, indexed post whose Korean PUT the store refused *)
C30_Witness ==
    /\ ret.op = "update" /\ ret.why = "ko" /\ ret.num \in Seqs
    /\ \A f \in Pair(ret.num) : files[f] # NoFile
    /\ cache.has /\ index.exists /\ index.posts # <<>>

(* C28: when the last mutation is a publish that returned success with its
   index write done, and no list request is in flight any more, the cache is
   empty or holds the post list of the index document as that publish left
   it: no loader leaves the list it fetched before the publish in the cache. *)
C28_NoStaleListAfterMutation ==
    (/\ ret.op = "publish" /\ ret.ok /\ ret.why = "saved"
     /\ \A p \in Procs : lst[p].pc \in {"start", "done"}
     /\ cache.has)
        => cache.data = index.posts

(* ---- search and paging as the design states them ------------------------ *)
SameLetter(c, d) == c = d \/ {c, d} = {"a", "A"}

(* q occurs in s as a run of letters, upper and lower case taken as equal *)
Has(s, q) ==
    \E i \in 1..(Len(s) - Len(q) + 1) : \A k \in 1..Len(q) : SameLetter(s[i + k - 1], q[k])

Matching(posts, q) == {i \in 1..Len(posts) : Has(posts[i].title, q) \/ Has(posts[i].content, q)}

Nth(S, k) == CHOOSE i \in S : Cardinality({j \in S : j <= i}) = k

(* C22: the search returns, in their original order, exactly the posts whose
   title or content contains the query without regard to case; an empty query
   returns every post; filtering by language before the search or after it
   gives the same list.                                                     *)
C22_SearchSelectsMatchesInOrder ==
    out.set =>
        LET src == FilterLang(arg.posts, arg.lang)
            keep == Matching(src, arg.query)
        IN /\ Len(out.posts) = Cardinality(keep)
           /\ \A k \in 1..Len(out.posts) : out.posts[k] = src[Nth(keep, k)]
           /\ arg.query = <<>> => (out.posts = src /\ search_posts(src, arg.query) = src)
           /\ FilterLang(search_posts(arg.posts, arg.query), arg.lang) = out.posts

(* a search in one language with an upper-case letter in the query that keeps
   the second of two posts of that language and drops the first             *)
C22_Witness ==
    /\ out.set /\ arg.lang # "" /\ Lower(arg.query) # arg.query
    /\ Len(arg.posts) = MaxPosts /\ FilterLang(arg.posts, arg.lang) = arg.posts
    /\ out.posts = <<arg.posts[2]>> /\ arg.posts[1] # arg.posts[2]
    /\ arg.posts[2].title # Lower(arg.posts[2].title)

Ceil(total) == CHOOSE k \in 0..total : (k - 1) * per_page < total /\ total <= k * per_page

RECURSIVE Pages(_, _)
Pages(posts, k) ==
    IF k = 0 THEN <<>> ELSE Pages(posts, k - 1) \o paginate(posts, k).paginated_posts

(* C24: with five posts to a page the page shown is 1 for an empty list and
   otherwise the requested page brought into 1..ceil(total/5); the slice shown
   is that block of the list and is not empty when the list is not; the pages
   1..ceil(total/5) put one after the other are the list.                   *)
C24_PaginationClamps ==
    out.set =>
        LET total == Len(out.posts)
            last == Ceil(total)
            p == arg.page
        IN /\ total = 0 => out.page = 1
           /\ total > 0 => /\ (p < 1 => out.page = 1)
                            /\ (p > last => out.page = last)
                            /\ ((1 <= p /\ p <= last) => out.page = p)
                            /\ out.paginated_posts # <<>>
           /\ out.paginated_posts =
                 [i \in 1..(IF out.page * per_page <= total THEN per_page
                            ELSE total - (out.page - 1) * per_page) |->
                    out.posts[(out.page - 1) * per_page + i]]
           /\ Pages(out.posts, last) = out.posts

(* a page number past the end, brought back to a last page that is not full *)
C24_Witness ==
    /\ out.set /\ arg.page > out.page /\ out.page > 1
    /\ out.paginated_posts # <<>> /\ Len(out.paginated_posts) < per_page

(* C27: right after a guestbook post has passed the rate limit at time now,
   the rate-limit map holds no entry that is sweep_age seconds old or older. *)
C27_RateLimitMapIsSwept ==
    [][(now' = now /\ ret'.op = "guestbook" /\ ret'.why \in {"inserted", "insert"}) =>
          \A ip \in DOMAIN rate' : now - rate'[ip] < sweep_age]_vars

(* C31: when a publish has returned success with its index write done, the
   index posts are the new Korean entry, the new English entry and then every
   entry the index document held before, in their previous order.           *)
C31_IndexInsertionKeepsEntries ==
    [][(Returned("publish") /\ ret'.ok /\ ret'.why = "saved") =>
          /\ Len(index'.posts) = Len(index.posts) + 2
          /\ index'.posts[1].id = ret'.ids[1]
          /\ index'.posts[2].id = ret'.ids[2]
          /\ SubSeq(index'.posts, 3, Len(index'.posts)) = index.posts]_vars

(* C33: in every store state, and for either answer of the directory
   listing, the automation agent and the web publish path compute the same
   next sequence number for today.                                          *)
C33_AgentAndWebAllocateAlike ==
    \A oList \in {"ok", "err"} :
        agent_get_existing_posts_count(files, Today, oList) + 1
            = get_existing_posts_count(files, Today, oList) + 1

(* C34: while no store call has failed and the index document exists, the
   ids in the index document are the ids of the post files in the store.    *)
C34_IndexAgreesWithFiles ==
    (faults = 0 /\ index.exists) => Ids(index.posts) = Existing(files)

(* C32: a list call that missed the cache and whose index fetch and directory
   listing both failed leaves the cache empty.                              *)
C32_FailedLoadIsNotCached ==
    [][(Returned("list") /\ ret'.calls = 2 /\ faults' = faults + 2) => ~cache'.has]_vars

(* C35: two guestbook posts of one client that passed the rate-limit check
   are at least rate_window seconds apart.                                  *)
C35_PassesAreSpacedOut ==
    \A i, j \in 1..Len(gb.passed) :
        (i < j /\ gb.passed[i][1] = gb.passed[j][1]) =>
            \/ gb.passed[j][2] - gb.passed[i][2] >= rate_window
            \/ gb.passed[i][2] - gb.passed[j][2] >= rate_window

(* a guestbook request rejected by the honeypot, by validation or by the rate
   limit leaves the rate-limit map as it was                                *)
C35_RejectionKeepsTimestamps ==
    [][(now' = now /\ ret'.op = "guestbook"
        /\ ret'.why \in {"honeypot", "validation", "too_long", "rate_limited"}) =>
          rate' = rate]_vars

====
